---- MODULE Spec2Model ----
(***************************************************************************)
(* Model of data-summarizer (src/src/lib.rs): the normalizer              *)
(* pydict_to_value / py_to_value, the recursive summarizer                *)
(* summarize_value, and the exported function summarize_large_json.       *)
(***************************************************************************)
EXTENDS Integers, Sequences, FiniteSets, TLC

VARIABLES
    py_input,                 \* the PyDict handed to summarize_large_json
    json_value,               \* the serde_json::Value being summarized
    type_counts,              \* HashMap<String, usize> accumulator
    nested_dicts,             \* usize accumulator
    nested_lists_with_dicts,  \* usize accumulator
    size,                     \* first component of summarize_value's result
    keys,                     \* second component of summarize_value's result
    ret,                      \* what summarize_large_json gave its caller
    pc,                       \* "call", "tree", "idle", "done", "summarized"
    inputs,                   \* the dictionaries a caller holds (call sequences)
    ncalls,                   \* calls started so far (call sequences)
    history                   \* completed calls: set of [input, ret]

vars == <<py_input, json_value, type_counts, nested_dicts,
          nested_lists_with_dicts, size, keys, ret, pc, inputs, ncalls, history>>

----------------------------------------------------------------------------
(* Bounds                                                                  *)

MaxNodes == 4
MaxPyNodes == 3
MaxCallNodes == 3
MaxCalls == 3

----------------------------------------------------------------------------
(* Python objects: [t: type name, s: printed value, items: children]       *)

PyScalar(t, s) == [t |-> t, s |-> s, items |-> <<>>]
PyDictOf(items) == [t |-> "dict", s |-> "", items |-> items]
PyListOf(items) == [t |-> "list", s |-> "", items |-> items]
PyNone == PyScalar("NoneType", "None")

PyLeaves ==
    { PyScalar("str", "a"), PyScalar("int", "1"), PyScalar("float", "1.5"),
      PyScalar("float", "nan"), PyScalar("float", "inf"),
      PyScalar("bool", "True"), PyNone, PyScalar("object", "obj") }

PyKeys == { PyScalar("str", "a"), PyScalar("str", "b"), PyScalar("int", "1") }

CallLeaves == {}
CallKeys == { PyScalar("str", "a"), PyScalar("str", "b") }

InjectiveSeqs(S, n) ==
    { q \in [1..n -> S] : \A i, j \in 1..n : i # j => q[i] # q[j] }

RECURSIVE PyOfSize(_, _), PyForest(_, _), PyItems(_, _, _)
\* all Python values with exactly n nodes; u = [leaves, keys, lists]
PyOfSize(n, u) ==
    IF n = 1
    THEN u.leaves \cup {PyDictOf(<<>>)} \cup (IF u.lists THEN {PyListOf(<<>>)} ELSE {})
    ELSE { PyDictOf(f) : f \in PyItems(n - 1, u, {}) }
         \cup (IF u.lists THEN { PyListOf(f) : f \in PyForest(n - 1, u) } ELSE {})

\* all sequences of Python values with m nodes in total
PyForest(m, u) ==
    IF m = 0 THEN { <<>> }
    ELSE UNION { { <<t>> \o f : t \in PyOfSize(k, u), f \in PyForest(m - k, u) } :
                 k \in 1..m }

\* all sequences of <<key, value>> with m nodes in total and distinct keys not in used
PyItems(m, u, used) ==
    IF m = 0 THEN { <<>> }
    ELSE UNION { { << <<c[1], t>> >> \o f :
                      t \in PyOfSize(c[2], u),
                      f \in PyItems(m - c[2], u, used \cup {c[1]}) } :
                 c \in (u.keys \ used) \X (1..m) }

PyDictsUpTo(n, u) ==
    UNION { { v \in PyOfSize(k, u) : v.t = "dict" } : k \in 1..n }

PyInputs == PyDictsUpTo(MaxPyNodes, [leaves |-> PyLeaves, keys |-> PyKeys, lists |-> TRUE])
CallInputs == PyDictsUpTo(MaxCallNodes, [leaves |-> CallLeaves, keys |-> CallKeys, lists |-> FALSE])

----------------------------------------------------------------------------
(* serde_json::Value: [tag, form, s, entries]                              *)

JObject(map) == [tag |-> "Object", form |-> "", s |-> "", entries |-> map]
JArray(arr) == [tag |-> "Array", form |-> "", s |-> "", entries |-> arr]
JString(s) == [tag |-> "String", form |-> "", s |-> s, entries |-> <<>>]
JNumber(form, s) == [tag |-> "Number", form |-> form, s |-> s, entries |-> <<>>]
JBool(s) == [tag |-> "Boolean", form |-> "", s |-> s, entries |-> <<>>]
JNull == [tag |-> "Null", form |-> "", s |-> "", entries |-> <<>>]

Tags == {"Object", "Array", "String", "Number", "Boolean", "Null"}

\* String's Ord on the key names in use
KeyOrder == <<"a", "b">>
KeyRank(k) == CHOOSE i \in 1..Len(KeyOrder) : KeyOrder[i] = k

\* Map::new()
MapNew == <<>>

\* Map::insert: replace an equal key, otherwise insert in key order
MapInsert(map, k, v) ==
    IF \E i \in 1..Len(map) : map[i][1] = k
    THEN [i \in 1..Len(map) |-> IF map[i][1] = k THEN <<k, v>> ELSE map[i]]
    ELSE SelectSeq(map, LAMBDA e : KeyRank(e[1]) < KeyRank(k))
         \o << <<k, v>> >>
         \o SelectSeq(map, LAMBDA e : KeyRank(e[1]) > KeyRank(k))

----------------------------------------------------------------------------
(* Normalizer                                                              *)

Ok(v) == [kind |-> "Ok", v |-> v, err |-> ""]
Err(e) == [kind |-> "Err", v |-> JNull, err |-> e]
Panic == [kind |-> "Panic", v |-> JNull, err |-> "unwrap on None"]

\* the int values in use all fit an i64 and a double
I64Ints == {"1"}
F64Ints == {"1"}
NonFinite == {"nan", "inf"}

IsPyDict(v) == v.t = "dict"
ExtractString(v) == v.t = "str"
ExtractI64(v) == (v.t = "int" /\ v.s \in I64Ints) \/ v.t = "bool"
ExtractF64(v) == v.t = "float" \/ (v.t = "int" /\ v.s \in F64Ints) \/ v.t = "bool"
ExtractBool(v) == v.t = "bool"
IsNone(v) == v.t = "NoneType"

AsI64(v) == IF v.t = "bool" THEN (IF v.s = "True" THEN "1" ELSE "0") ELSE v.s
AsF64(v) == IF v.t = "bool" THEN (IF v.s = "True" THEN "1.0" ELSE "0.0") ELSE v.s

\* serde_json::Number::from_f64(x).unwrap()
FromF64Unwrap(s) == IF s \in NonFinite THEN Panic ELSE Ok(JNumber("f64", s))

\* a plausible slip: the boolean test placed ahead of the numeric tests
ResolveBoolFirst(py_value) ==
    IF IsPyDict(py_value) THEN "dict"
    ELSE IF ExtractString(py_value) THEN "str"
    ELSE IF ExtractBool(py_value) THEN "bool"
    ELSE IF ExtractI64(py_value) THEN "i64"
    ELSE IF ExtractF64(py_value) THEN "f64"
    ELSE IF IsNone(py_value) THEN "none"
    ELSE "unsupported"

\* the if / else-if chain of py_to_value: which branch is taken
Resolve(py_value) ==
    IF IsPyDict(py_value) THEN "dict"
    ELSE IF ExtractString(py_value) THEN "str"
    ELSE IF ExtractI64(py_value) THEN "i64"
    ELSE IF ExtractF64(py_value) THEN "f64"
    ELSE IF ExtractBool(py_value) THEN "bool"
    ELSE IF IsNone(py_value) THEN "none"
    ELSE "unsupported"

RECURSIVE py_to_value(_), pydict_to_value_from(_, _, _)

\* the for loop of pydict_to_value, from entry i on, with the map built so far
pydict_to_value_from(py_dict, i, map) ==
    IF i > Len(py_dict.items) THEN Ok(JObject(map))
    ELSE LET key == py_dict.items[i][1]
             value == py_dict.items[i][2]
         IN  IF ~ExtractString(key) THEN Err("TypeError")
             ELSE LET r == py_to_value(value)
                  IN  IF r.kind # "Ok" THEN r
                      ELSE pydict_to_value_from(py_dict, i + 1, MapInsert(map, key.s, r.v))

pydict_to_value(py_dict) == pydict_to_value_from(py_dict, 1, MapNew)

py_to_value(py_value) ==
    LET branch == Resolve(py_value)
    IN  CASE branch = "dict" -> pydict_to_value(py_value)
          [] branch = "str" -> Ok(JString(py_value.s))
          [] branch = "i64" -> Ok(JNumber("i64", AsI64(py_value)))
          [] branch = "f64" -> FromF64Unwrap(AsF64(py_value))
          [] branch = "bool" -> Ok(JBool(py_value.s))
          [] branch = "none" -> Ok(JNull)
          [] OTHER -> Err("ValueError")

----------------------------------------------------------------------------
(* Summarizer                                                              *)

\* the three accumulators summarize_large_json creates for each call
Accumulators(tc, nd, nl) ==
    [type_counts |-> tc, nested_dicts |-> nd, nested_lists_with_dicts |-> nl]

\* HashMap::new()
HashMapNew == <<>>

\* a plausible slip: accumulators kept from the previous call
StaleAccumulators == Accumulators(type_counts, nested_dicts, nested_lists_with_dicts)

\* let mut type_counts = HashMap::new(); let mut nested_dicts = 0; ...
NewAccumulators == Accumulators(HashMapNew, 0, 0)

\* a plausible slip: the entry is set to 1 rather than incremented
BumpSetsOne(counts, tag) ==
    IF tag \in DOMAIN counts THEN [counts EXCEPT ![tag] = 1] ELSE counts @@ (tag :> 1)

\* *type_counts.entry(tag).or_insert(0) += 1
Bump(counts, tag) ==
    IF tag \in DOMAIN counts THEN [counts EXCEPT ![tag] = @ + 1] ELSE counts @@ (tag :> 1)

\* a plausible slip: the object's own entries are not added to size
ObjectOwnSizeForgotten(map) == 0

\* size += map.len()
ObjectOwnSize(map) == Len(map)

\* a plausible slip: the histogram is bumped but nested_dicts is not
EnterObjectNoCount(acc) ==
    [acc EXCEPT !.type_counts = Bump(@, "Object")]

\* the two accumulator updates on entering an Object
EnterObject(acc) ==
    [acc EXCEPT !.type_counts = Bump(@, "Object"), !.nested_dicts = @ + 1]

\* on entering an Array
EnterArray(acc) ==
    [acc EXCEPT !.type_counts = Bump(@, "Array")]

\* if let Value::Object(_) = val { *nested_lists_with_dicts += 1; }
NoteElement(acc, val) ==
    IF val.tag = "Object"
    THEN [acc EXCEPT !.nested_lists_with_dicts = @ + 1]
    ELSE acc

\* a plausible slip: a String leaf puts its text into keys
summarize_leaf_keeps_text(value, acc) ==
    [size |-> 1,
     keys |-> IF value.tag = "String" THEN {value.s} ELSE {},
     acc |-> [acc EXCEPT !.type_counts = Bump(@, value.tag)]]

\* the String, Number, Bool and Null arms
summarize_leaf(value, acc) ==
    [size |-> 1, keys |-> {}, acc |-> [acc EXCEPT !.type_counts = Bump(@, value.tag)]]

RECURSIVE summarize_value(_, _, _), summarize_object_from(_, _, _, _),
          summarize_array_from(_, _, _, _)

\* the for loop of the Object arm, from entry i on; st = [size, keys, acc]
summarize_object_from(map, i, depth, st) ==
    IF i > Len(map) THEN st
    ELSE LET key == map[i][1]
             sub == summarize_value(map[i][2], depth + 1, st.acc)
         IN  summarize_object_from(map, i + 1, depth,
                 [size |-> st.size + sub.size,
                  keys |-> (st.keys \cup {key}) \cup sub.keys,
                  acc |-> sub.acc])

\* the for loop of the Array arm, from element i on
summarize_array_from(arr, i, depth, st) ==
    IF i > Len(arr) THEN st
    ELSE LET sub == summarize_value(arr[i], depth + 1, NoteElement(st.acc, arr[i]))
         IN  summarize_array_from(arr, i + 1, depth,
                 [size |-> st.size + sub.size,
                  keys |-> st.keys \cup sub.keys,
                  acc |-> sub.acc])

summarize_value(value, depth, acc) ==
    CASE value.tag = "Object" ->
            summarize_object_from(value.entries, 1, depth,
                [size |-> ObjectOwnSize(value.entries), keys |-> {}, acc |-> EnterObject(acc)])
      [] value.tag = "Array" ->
            summarize_array_from(value.entries, 1, depth,
                [size |-> 0, keys |-> {}, acc |-> EnterArray(acc)])
      [] OTHER -> summarize_leaf(value, acc)

\* keys.into_iter().collect(): a HashSet is iterated in an unspecified order
IntoIterCollect(S) == InjectiveSeqs(S, Cardinality(S))

----------------------------------------------------------------------------
(* Value trees handed to summarize_value                                   *)

JLeaves == { JString("a"), JNumber("i64", "1"), JBool("True"), JNull }
JKeys == { "a", "b" }

RECURSIVE ValuesOfSize(_), ValueForest(_), ValueEntries(_, _)
ValuesOfSize(n) ==
    IF n = 1
    THEN JLeaves \cup {JObject(<<>>), JArray(<<>>)}
    ELSE { JObject(f) : f \in ValueEntries(n - 1, 0) }
         \cup { JArray(f) : f \in ValueForest(n - 1) }

ValueForest(m) ==
    IF m = 0 THEN { <<>> }
    ELSE UNION { { <<t>> \o f : t \in ValuesOfSize(k), f \in ValueForest(m - k) } :
                 k \in 1..m }

\* all key-ordered sequences of <<key, value>> with m nodes in total, keys above rank
ValueEntries(m, rank) ==
    IF m = 0 THEN { <<>> }
    ELSE UNION { { << <<c[1], t>> >> \o f :
                      t \in ValuesOfSize(c[2]),
                      f \in ValueEntries(m - c[2], KeyRank(c[1])) } :
                 c \in { k \in JKeys : KeyRank(k) > rank } \X (1..m) }

Values == UNION { ValuesOfSize(k) : k \in 1..MaxNodes }

----------------------------------------------------------------------------
(* State machine                                                           *)

NoRet ==
    [kind |-> "None", err |-> "", size |-> 0, keys |-> <<>>, nested_dicts |-> 0,
     type_counts |-> <<>>, nested_lists_with_dicts |-> 0]

Failure(conv) ==
    [kind |-> conv.kind, err |-> conv.err, size |-> 0, keys |-> <<>>,
     nested_dicts |-> 0, type_counts |-> <<>>, nested_lists_with_dicts |-> 0]

\* the Ok((size, keys, nested_dicts, type_counts, nested_lists_with_dicts)) tuple
Success(sz, ks, acc) ==
    [kind |-> "Ok", err |-> "", size |-> sz, keys |-> ks,
     nested_dicts |-> acc.nested_dicts, type_counts |-> acc.type_counts,
     nested_lists_with_dicts |-> acc.nested_lists_with_dicts]

InitCommon ==
    /\ type_counts = HashMapNew
    /\ nested_dicts = 0
    /\ nested_lists_with_dicts = 0
    /\ size = 0
    /\ keys = {}
    /\ ret = NoRet
    /\ ncalls = 0
    /\ history = {}

\* one call of summarize_large_json is about to run on py_input
InitCall ==
    /\ py_input \in PyInputs
    /\ json_value = JNull
    /\ inputs = <<>>
    /\ pc = "call"
    /\ InitCommon

\* summarize_value is about to run on a tree
InitTree ==
    /\ py_input = PyNone
    /\ json_value \in Values
    /\ inputs = <<>>
    /\ pc = "tree"
    /\ InitCommon

\* a caller holding two dictionaries, about to call several times
InitCalls ==
    /\ py_input = PyNone
    /\ json_value = JNull
    /\ inputs \in CallInputs \X CallInputs
    /\ pc = "idle"
    /\ InitCommon

Init == InitCall \/ InitTree

\* summarize_large_json(py_dict), the whole call
summarize_large_json(py_dict) ==
    /\ py_input' = py_dict
    /\ LET conv == pydict_to_value(py_dict)
       IN  IF conv.kind = "Ok"
           THEN LET r == summarize_value(conv.v, 0, NewAccumulators)
                IN  \E order \in IntoIterCollect(r.keys) :
                       /\ json_value' = conv.v
                       /\ size' = r.size
                       /\ keys' = r.keys
                       /\ type_counts' = r.acc.type_counts
                       /\ nested_dicts' = r.acc.nested_dicts
                       /\ nested_lists_with_dicts' = r.acc.nested_lists_with_dicts
                       /\ ret' = Success(r.size, order, r.acc)
           ELSE /\ ret' = Failure(conv)
                /\ UNCHANGED <<json_value, size, keys, type_counts, nested_dicts,
                               nested_lists_with_dicts>>
    /\ pc' = "done"
    /\ ncalls' = ncalls + 1
    /\ history' = history \cup {[input |-> py_dict, ret |-> ret']}
    /\ UNCHANGED inputs

\* the pending call runs
SummarizeLargeJson ==
    /\ pc = "call"
    /\ summarize_large_json(py_input)

\* summarize_value(&json_value, 0, ...) on a tree, with new accumulators
SummarizeValue ==
    /\ pc = "tree"
    /\ LET r == summarize_value(json_value, 0, NewAccumulators)
       IN  /\ size' = r.size
           /\ keys' = r.keys
           /\ type_counts' = r.acc.type_counts
           /\ nested_dicts' = r.acc.nested_dicts
           /\ nested_lists_with_dicts' = r.acc.nested_lists_with_dicts
    /\ pc' = "summarized"
    /\ UNCHANGED <<py_input, json_value, ret, inputs, ncalls, history>>

\* the caller passes one of its dictionaries to summarize_large_json
Invoke(i) ==
    /\ pc \in {"idle", "done"}
    /\ ncalls < MaxCalls
    /\ summarize_large_json(inputs[i])

Next == SummarizeLargeJson \/ SummarizeValue

NextCalls == \E i \in 1..2 : Invoke(i)

Spec == Init /\ [][Next]_vars

SpecCalls == InitCalls /\ [][NextCalls]_vars

----------------------------------------------------------------------------
(* Vocabulary of the properties: nodes of a tree, addressed by path        *)

Children(v) ==
    IF v.tag = "Object" THEN [i \in 1..Len(v.entries) |-> v.entries[i][2]]
    ELSE IF v.tag = "Array" THEN v.entries
    ELSE <<>>

RECURSIVE Paths(_), NodeAt(_, _)
Paths(v) ==
    {<<>>} \cup UNION { { <<i>> \o p : p \in Paths(Children(v)[i]) } :
                        i \in 1..Len(Children(v)) }

NodeAt(v, p) == IF p = <<>> THEN v ELSE NodeAt(Children(v)[Head(p)], Tail(p))

Front(p) == SubSeq(p, 1, Len(p) - 1)
Last(p) == p[Len(p)]

NodesWithTag(v, tag) == { p \in Paths(v) : NodeAt(v, p).tag = tag }
LeafNodes(v) == { p \in Paths(v) : NodeAt(v, p).tag \notin {"Object", "Array"} }
\* one path per key-value entry of an Object node
EntryNodes(v) == { p \in Paths(v) : p # <<>> /\ NodeAt(v, Front(p)).tag = "Object" }
KeyOfEntry(v, p) == NodeAt(v, Front(p)).entries[Last(p)][1]
ArraysWithObject(v) ==
    { p \in NodesWithTag(v, "Array") :
         \E i \in 1..Len(NodeAt(v, p).entries) : NodeAt(v, p).entries[i].tag = "Object" }

Hist(counts, tag) == IF tag \in DOMAIN counts THEN counts[tag] ELSE 0
HistTotal(counts) ==
    Hist(counts, "Object") + Hist(counts, "Array") + Hist(counts, "String")
    + Hist(counts, "Number") + Hist(counts, "Boolean") + Hist(counts, "Null")

Range(q) == { q[i] : i \in 1..Len(q) }

PyChildren(v) ==
    IF v.t = "dict" THEN [i \in 1..Len(v.items) |-> v.items[i][2]]
    ELSE IF v.t = "list" THEN v.items
    ELSE <<>>

RECURSIVE PyNodes(_)
PyNodes(v) == {v} \cup UNION { PyNodes(PyChildren(v)[i]) : i \in 1..Len(PyChildren(v)) }

PyDictKeys(v) ==
    UNION { { d.items[i][1] : i \in 1..Len(d.items) } : d \in { n \in PyNodes(v) : n.t = "dict" } }

AllKeysAreStrings(v) == \A k \in PyDictKeys(v) : k.t = "str"

\* paths by key name through nested dictionaries
RECURSIVE KeyPaths(_), PyAt(_, _), JAt(_, _)
KeyPaths(v) ==
    {<<>>} \cup
    (IF v.t = "dict"
     THEN UNION { { <<v.items[i][1].s>> \o p : p \in KeyPaths(v.items[i][2]) } :
                  i \in 1..Len(v.items) }
     ELSE {})
PyAt(v, kp) ==
    IF kp = <<>> THEN v
    ELSE PyAt((CHOOSE it \in Range(v.items) : it[1].s = Head(kp))[2], Tail(kp))
JAt(j, kp) ==
    IF kp = <<>> THEN j
    ELSE JAt((CHOOSE e \in Range(j.entries) : e[1] = Head(kp))[2], Tail(kp))

\* the six checks in the documented order, and the variant each one gives
Checks(v) ==
    << IsPyDict(v), ExtractString(v), ExtractI64(v), ExtractF64(v), ExtractBool(v),
       IsNone(v) >>
Satisfied(v) == { i \in 1..6 : Checks(v)[i] }
FirstCheck(v) ==
    IF Satisfied(v) = {} THEN 0
    ELSE CHOOSE i \in Satisfied(v) : \A j \in Satisfied(v) : i <= j
VariantOfCheck ==
    << <<"Object", "">>, <<"String", "">>, <<"Number", "i64">>, <<"Number", "f64">>,
       <<"Boolean", "">>, <<"Null", "">> >>

\* the summarizer has run on json_value
Summarized == pc = "summarized" \/ (pc = "done" /\ ret.kind = "Ok")
\* summarize_large_json has returned to its caller
Returned == pc = "done"

HasNonFinite(v) == \E n \in PyNodes(v) : n.t = "float" /\ n.s \in NonFinite
HasUnsupported(v) == \E n \in PyNodes(v) : n.t = "object"
\* the shapes the documentation lists: string-keyed maps, sequences, finite scalars
DocumentedShape(v) ==
    /\ AllKeysAreStrings(v)
    /\ \A n \in PyNodes(v) :
          /\ n.t \in {"dict", "list", "str", "int", "float", "bool", "NoneType"}
          /\ n.t = "float" => n.s \notin NonFinite
          /\ n.t = "int" => n.s \in I64Ints \cup F64Ints

----------------------------------------------------------------------------
(* Properties                                                              *)

\* C1: nested_array_with_object_count equals the number of Array nodes that
\* have at least one direct Object child (one per qualifying array, however
\* many Object children it has).
Claim_C1_OncePerArray ==
    Summarized => nested_lists_with_dicts = Cardinality(ArraysWithObject(json_value))

\* C2: an input made of string-keyed maps, sequences and finite scalars is
\* normalized successfully, every sequence becoming an Array node.
Claim_C2_SequencesAccepted ==
    (Returned /\ DocumentedShape(py_input)) =>
        /\ ret.kind = "Ok"
        /\ Cardinality(NodesWithTag(json_value, "Array"))
             = Cardinality({ n \in PyNodes(py_input) : n.t = "list" })

\* C3: a non-finite float anywhere in the input ends the call in an error
\* returned as an Err value, never in a panic and never in a result.
Claim_C3_NonFiniteIsError ==
    (Returned /\ HasNonFinite(py_input)) => ret.kind = "Err"

\* C4: a value of an unsupported type anywhere in the input makes the call
\* return only the unsupported-type error: the summarizer never runs and no
\* statistics come back. (Stated for inputs whose keys are all strings, so
\* that a key error cannot be what ends the call.)
Claim_C4_UnsupportedOnlyError ==
    (Returned /\ AllKeysAreStrings(py_input) /\ HasUnsupported(py_input)) =>
        /\ ret = Failure(Err("ValueError"))
        /\ type_counts = HashMapNew
        /\ nested_dicts = 0
        /\ nested_lists_with_dicts = 0

\* C5: every value is tagged by the earliest check it satisfies in the order
\* map, string, integer, float, boolean, none (a bool, which is also
\* integer-like, becomes an integer Number); a value satisfying none gives the
\* unsupported-type error.
Thm_C5_FirstMatch ==
    Returned =>
        /\ ret.kind = "Ok" =>
              \A kp \in KeyPaths(py_input) :
                 LET v == PyAt(py_input, kp)
                     j == JAt(json_value, kp)
                 IN  /\ FirstCheck(v) # 0
                     /\ <<j.tag, j.form>> = VariantOfCheck[FirstCheck(v)]
        /\ (ret.kind = "Err" /\ ret.err = "ValueError") =>
              \E v \in PyNodes(py_input) : FirstCheck(v) = 0
        /\ ret.kind = "Panic" =>
              \E v \in PyNodes(py_input) : FirstCheck(v) = 4
        /\ (AllKeysAreStrings(py_input) /\ ~HasNonFinite(py_input)
              /\ \A v \in PyNodes(py_input) : FirstCheck(v) # 0) => ret.kind = "Ok"
        /\ (Len(py_input.items) = 1 /\ py_input.items[1][1].t = "str"
              /\ FirstCheck(py_input.items[1][2]) = 0) =>
              (ret.kind = "Err" /\ ret.err = "ValueError")

\* C5 witness: a bool in the input came out as an integer Number.
Wit_C5_BoolBecomesInteger ==
    /\ Returned
    /\ ret.kind = "Ok"
    /\ \E i \in 1..Len(py_input.items) :
          /\ py_input.items[i][2].t = "bool"
          /\ JAt(json_value, <<py_input.items[i][1].s>>) = JNumber("i64", "1")

\* C6: size is the number of scalar leaves plus the number of entries of all
\* Object nodes; Array nodes add nothing themselves.
Thm_C6_SizeAdditive ==
    Summarized =>
        size = Cardinality(LeafNodes(json_value)) + Cardinality(EntryNodes(json_value))

\* C6 witness: a non-empty Array holding an Object with an entry, summarized.
Wit_C6_ArrayAndObject ==
    /\ pc = "summarized"
    /\ json_value.tag = "Array"
    /\ Len(json_value.entries) = 2
    /\ \E i \in 1..2 : json_value.entries[i].tag = "Object"
                        /\ Len(json_value.entries[i].entries) = 1
    /\ size = 3

\* C7: keys is exactly the union of the key names of every Object node at any
\* depth; the text of a String leaf is never included; the returned sequence
\* lists each key once.
Thm_C7_KeysAreObjectKeys ==
    /\ Summarized =>
          keys = { KeyOfEntry(json_value, p) : p \in EntryNodes(json_value) }
    /\ (Returned /\ ret.kind = "Ok") =>
          (Range(ret.keys) = keys /\ Len(ret.keys) = Cardinality(keys))

\* C7 witness: an Object inside an Array has key b and String value "a".
Wit_C7_StringValueNotKey ==
    /\ pc = "summarized"
    /\ json_value.tag = "Array"
    /\ \E p \in Paths(json_value) : NodeAt(json_value, p) = JString("a")
    /\ keys = {"b"}

\* C8: every node is counted once, in the histogram entry of its own tag: the
\* histogram total is nested_object_count + Array nodes + scalar leaves.
Thm_C8_HistogramComplete ==
    Summarized =>
        /\ DOMAIN type_counts \subseteq Tags
        /\ \A tag \in Tags :
              Hist(type_counts, tag) = Cardinality(NodesWithTag(json_value, tag))
        /\ \A tag \in DOMAIN type_counts : type_counts[tag] >= 1
        /\ HistTotal(type_counts)
             = nested_dicts + Cardinality(NodesWithTag(json_value, "Array"))
               + Cardinality(LeafNodes(json_value))

\* C8 witness: a tree with an Array and two Numbers, summarized.
Wit_C8_TwoNumbers ==
    /\ pc = "summarized"
    /\ Hist(type_counts, "Number") = 2
    /\ Hist(type_counts, "Array") = 1
    /\ Hist(type_counts, "Object") = 1

\* C9: nested_object_count is the number of Object nodes of the tree, root
\* included; it is at least 1 on a successful call and equals the histogram
\* entry for Object.
Thm_C9_ObjectCount ==
    /\ Summarized =>
          /\ nested_dicts = Cardinality(NodesWithTag(json_value, "Object"))
          /\ nested_dicts = Hist(type_counts, "Object")
    /\ (Returned /\ ret.kind = "Ok") =>
          /\ ret.nested_dicts = Cardinality(NodesWithTag(json_value, "Object"))
          /\ ret.nested_dicts >= 1
          /\ ret.nested_dicts = Hist(ret.type_counts, "Object")

\* C9 witness: a successful call on a dictionary holding two dictionaries.
Wit_C9_ThreeObjects ==
    /\ Returned
    /\ ret.kind = "Ok"
    /\ ret.nested_dicts = 3

SameCall(h1, h2) == h1.input = h2.input /\ h1.ret.kind = "Ok" /\ h2.ret.kind = "Ok"

\* C10 as stated: two calls on the same valid input return identical results
\* in all five fields, the returned keys sequence included.
Claim_C10_IdenticalResults ==
    \A h1, h2 \in history : SameCall(h1, h2) => h1.ret = h2.ret

\* C10 as amended: two calls on the same valid input return the same size,
\* the same set of keys, the same nested_object_count, the same histogram and
\* the same nested_array_with_object_count, whatever was summarized before or
\* between them; only the order of the returned keys may differ.
Thm_C10_SameSummary ==
    \A h1, h2 \in history :
        SameCall(h1, h2) =>
            /\ h1.ret.size = h2.ret.size
            /\ Range(h1.ret.keys) = Range(h2.ret.keys)
            /\ Len(h1.ret.keys) = Len(h2.ret.keys)
            /\ h1.ret.nested_dicts = h2.ret.nested_dicts
            /\ h1.ret.type_counts = h2.ret.type_counts
            /\ h1.ret.nested_lists_with_dicts = h2.ret.nested_lists_with_dicts

\* C10 witness: three calls, the first dictionary summarized at least twice
\* (its keys came back in two orders) and the other dictionary once.
Wit_C10_RepeatedCall ==
    /\ ncalls = 3
    /\ inputs[1] # inputs[2]
    /\ py_input = inputs[1]
    /\ \E h \in history : h.input = inputs[2]
    /\ \E h1, h2 \in history :
          h1.input = inputs[1] /\ h2.input = inputs[1] /\ h1.ret.keys # h2.ret.keys

====
